---- MODULE Spec2Model ----
(***************************************************************************)
(* Model of streamlit_main.py: a Streamlit script that is re-run from top  *)
(* to bottom on every user interaction.  The widget values persist between *)
(* runs; everything else (the requests made, what is rendered) is rebuilt  *)
(* by each run.  One action of the model is one interaction: the widget    *)
(* change plus the complete script run it triggers.                        *)
(*                                                                         *)
(* Python values are modelled with records of a uniform shape:             *)
(*   - an optional value is [some, v] (None / key absent is some = FALSE); *)
(*   - a decoded JSON value is [t, obj, n] with t one of "none", "list",   *)
(*     "int", "dict" (JSON null decodes to Python None, t = "none");       *)
(*   - a response object is a record of its optional fields (section 6).   *)
(* Rendered elements are [kind, text, rows]; the emoji of the labels are   *)
(* left out of the texts.                                                  *)
(***************************************************************************)
EXTENDS Integers, Sequences, FiniteSets, TLC

VARIABLES option, employee_id, show_loans, requested_advance_amount,
          loan_term_months, button,
          backend_post, backend_get, req, gate, panel, out, calls, crashed

vars == <<option, employee_id, show_loans, requested_advance_amount,
          loan_term_months, button,
          backend_post, backend_get, req, gate, panel, out, calls, crashed>>

(***************************************************************************)
(* Bounds of the model.                                                    *)
(***************************************************************************)
MaxFailed == 2
MaxRows == 2
MaxLoans == 1

(***************************************************************************)
(* Program constants.                                                      *)
(***************************************************************************)
FASTAPI_BACKEND_URL == "http://backend:8000"
DefaultGrossSalary == 3000000
DefaultRequestedAdvance == 500000
DefaultLoanAmount == 1000000
\* The slider's 7.0 (percent), in tenths of a percent.
DefaultInterestTenths == 70
DefaultLoanTerm == 12
MaxLoanTerm == 60

(***************************************************************************)
(* Python values.                                                          *)
(***************************************************************************)
NoneStr == [some |-> FALSE, v |-> ""]
SomeStr(s) == [some |-> TRUE, v |-> s]
NoneNum == [some |-> FALSE, v |-> 0]
SomeNum(n) == [some |-> TRUE, v |-> n]
NoneSeq == [some |-> FALSE, v |-> <<>>]
SomeSeq(s) == [some |-> TRUE, v |-> s]

\* The three states of an optional boolean field of a response object.
Tri == {"absent", "true", "false"}

NoDetails ==
    [present |-> FALSE, salary_check |-> FALSE, pay_frequency_check |-> FALSE,
     amount_check |-> FALSE, advance_limit_check |-> FALSE,
     max_eligible_advance |-> NoneNum, failed_criteria |-> NoneSeq]

Details(s, p, a, l, m, f) ==
    [present |-> TRUE, salary_check |-> s, pay_frequency_check |-> p,
     amount_check |-> a, advance_limit_check |-> l,
     max_eligible_advance |-> m, failed_criteria |-> f]

EmptyObj ==
    [error |-> "absent", error_message |-> NoneStr,
     eligibility_details |-> NoDetails, advance_eligible |-> "absent",
     advance_message |-> NoneStr, approved_advance_amount |-> NoneNum,
     loan_requested |-> "absent", loan_total_repayable_amount |-> NoneNum,
     loan_amortization_schedule |-> NoneSeq]

PyNone == [t |-> "none", obj |-> EmptyObj, n |-> 0]
JList(k) == [t |-> "list", obj |-> EmptyObj, n |-> k]
JInt(k) == [t |-> "int", obj |-> EmptyObj, n |-> k]
JObj(o) == [t |-> "dict", obj |-> o, n |-> 0]

\* Python truthiness of an optional string: None and "" are falsy.
TruthyStr(s) == s.some /\ s.v # ""
\* Python truthiness of an optional number: None and 0 are falsy.
TruthyNum(m) == m.some /\ m.v # 0
\* Python truthiness of a decoded JSON value: None, {}, [] and 0 are falsy.
TruthyJson(j) ==
    CASE j.t = "none" -> FALSE
      [] j.t = "dict" -> j.obj # EmptyObj
      [] OTHER -> j.n # 0
\* str() of an optional string inside an f-string.
Str(s) == IF s.some THEN s.v ELSE "None"

(***************************************************************************)
(* Formatting.                                                             *)
(***************************************************************************)
Pad3(n) ==
    IF n < 10 THEN "00" \o ToString(n)
    ELSE IF n < 100 THEN "0" \o ToString(n) ELSE ToString(n)

RECURSIVE Group(_)
Group(n) ==
    IF n < 1000 THEN ToString(n)
    ELSE Group(n \div 1000) \o "," \o Pad3(n % 1000)

\* f"UGX {x:,.2f}" of a whole amount.
FormatUGX(n) == "UGX " \o Group(n) \o ".00"
\* f"{x}" of a float holding a whole amount.
FloatStr(n) == ToString(n) \o ".0"
\* f"{interest_rate*100:.1f}%" of a slider value given in tenths of a percent.
PercentStr(t) == ToString(t \div 10) \o "." \o ToString(t % 10) \o "%"

Item(kind, text) == [kind |-> kind, text |-> text, rows |-> <<>>]
Table(kind, text, rows) == [kind |-> kind, text |-> text, rows |-> rows]

(***************************************************************************)
(* make_request: the pair (json, error) for one backend outcome.           *)
(***************************************************************************)
make_request(outcome) ==
    CASE outcome.kind = "json" -> [json |-> outcome.body, error |-> NoneStr]
      [] outcome.kind = "connection" ->
            [json |-> PyNone,
             error |-> SomeStr("Could not connect to backend at "
                               \o FASTAPI_BACKEND_URL)]
      [] outcome.kind = "request" ->
            [json |-> PyNone,
             error |-> SomeStr("Request error: " \o outcome.detail)]
      [] OTHER ->
            [json |-> PyNone,
             error |-> SomeStr("Unexpected error: " \o outcome.detail)]

(***************************************************************************)
(* display_result: what it renders, what it returns, whether it raises.    *)
(* result.get on a value that is not a dict raises AttributeError.         *)
(***************************************************************************)
display_result(result, error_msg) ==
    IF TruthyStr(error_msg)
    THEN [out |-> <<Item("error", error_msg.v)>>, ret |-> PyNone,
          raised |-> FALSE]
    ELSE IF result.t # "dict"
    THEN [out |-> <<>>, ret |-> PyNone, raised |-> TRUE]
    ELSE IF result.obj.error = "true"
    THEN [out |-> <<Item("error", "Error: " \o
                      (IF result.obj.error_message.some
                       THEN result.obj.error_message.v
                       ELSE "Unknown error"))>>,
          ret |-> PyNone, raised |-> FALSE]
    ELSE [out |-> <<>>, ret |-> result, raised |-> FALSE]

(***************************************************************************)
(* display_eligibility_details.  The four indicators, the metric, then the *)
(* failed criteria with the remediation hints nested under them.           *)
(***************************************************************************)
SalaryIndicator(d) ==
    IF d.salary_check
    THEN <<Item("success", "Minimum salary requirement met")>>
    ELSE <<Item("error", "Minimum salary requirement not met")>>

PayFrequencyIndicator(d) ==
    IF d.pay_frequency_check
    THEN <<Item("success", "Valid pay frequency")>>
    ELSE <<Item("error", "Invalid pay frequency")>>

\* AmountIndicator reading the neighbouring check.
Mut_AmountIndicator(d) ==
    IF d.advance_limit_check
    THEN <<Item("success", "Valid advance amount")>>
    ELSE <<Item("error", "Invalid advance amount")>>

AmountIndicator(d) ==
    IF d.amount_check
    THEN <<Item("success", "Valid advance amount")>>
    ELSE <<Item("error", "Invalid advance amount")>>

AdvanceLimitIndicator(d) ==
    IF d.advance_limit_check
    THEN <<Item("success", "Within advance limit")>>
    ELSE <<Item("error", "Exceeds maximum advance limit")>>

MaxEligibleMetric(d) ==
    IF d.max_eligible_advance.some
    THEN <<Item("metric", "Max Eligible Advance: "
                          \o FormatUGX(d.max_eligible_advance.v))>>
    ELSE <<>>

\* failed_criteria = eligibility_details.get("failed_criteria", [])
FailedCriteria(d) == IF d.failed_criteria.some THEN d.failed_criteria.v ELSE <<>>

\* FailedCriteriaLines listing the entries last to first.
Mut_FailedCriteriaLines(fc) ==
    [i \in 1..Len(fc) |-> Item("error", "* " \o fc[Len(fc) + 1 - i])]

FailedCriteriaLines(fc) ==
    [i \in 1..Len(fc) |-> Item("error", "* " \o fc[i])]

SalaryHint(d) ==
    IF ~d.salary_check
    THEN <<Item("info", "* Increase your gross salary to at least UGX 200,000")>>
    ELSE <<>>

AmountHintText(n) ==
    "* Reduce your requested advance amount to " \o FormatUGX(n) \o " or less"

\* AmountHint testing `max_eligible is not None` as the metric does.
Mut_AmountHint(d) ==
    IF ~d.advance_limit_check /\ d.max_eligible_advance.some
    THEN <<Item("info", AmountHintText(d.max_eligible_advance.v))>>
    ELSE <<>>

\* `if not ...get("advance_limit_check") and max_eligible:`
AmountHint(d) ==
    IF ~d.advance_limit_check /\ TruthyNum(d.max_eligible_advance)
    THEN <<Item("info", AmountHintText(d.max_eligible_advance.v))>>
    ELSE <<>>

FrequencyHint(d) ==
    IF ~d.pay_frequency_check
    THEN <<Item("info", "* Ensure your pay frequency is one of: Weekly, Bi-weekly, Semi-monthly, or Monthly")>>
    ELSE <<>>

FailedSection(d) ==
    IF FailedCriteria(d) # <<>>
    THEN <<Item("subheader", "Issues to Address:")>>
         \o FailedCriteriaLines(FailedCriteria(d))
         \o <<Item("subheader", "How to Become Eligible:")>>
         \o SalaryHint(d) \o AmountHint(d) \o FrequencyHint(d)
    ELSE <<>>

display_eligibility_details(d) ==
    IF ~d.present
    THEN <<>>
    ELSE <<Item("subheader", "Eligibility Criteria Check")>>
         \o SalaryIndicator(d) \o PayFrequencyIndicator(d)
         \o AmountIndicator(d) \o AdvanceLimitIndicator(d)
         \o MaxEligibleMetric(d) \o FailedSection(d)

(***************************************************************************)
(* Requests.                                                               *)
(***************************************************************************)
AdvancePayload(emp, amount) ==
    [gross_salary |-> DefaultGrossSalary, pay_frequency |-> "Monthly",
     employee_id |-> emp,
     salary_advance |-> [requested_advance_amount |-> amount]]

LoanPayload(emp, term) ==
    [employee_id |-> emp, loan_amount |-> DefaultLoanAmount,
     annual_interest_rate |-> [num |-> DefaultInterestTenths, den |-> 1000],
     loan_term_months |-> term]

\* PostCalls with one retry of the request.
Mut_PostCalls(endpoint, payload) ==
    <<[method |-> "POST", url |-> FASTAPI_BACKEND_URL \o "/" \o endpoint,
       json |-> payload],
      [method |-> "POST", url |-> FASTAPI_BACKEND_URL \o "/" \o endpoint,
       json |-> payload]>>

\* requests.post(f"{FASTAPI_BACKEND_URL}/{endpoint}", json=payload): one attempt.
PostCalls(endpoint, payload) ==
    <<[method |-> "POST", url |-> FASTAPI_BACKEND_URL \o "/" \o endpoint,
       json |-> payload]>>

\* requests.get(f"{FASTAPI_BACKEND_URL}/loans"): one attempt.
GetCalls ==
    <<[method |-> "GET", url |-> FASTAPI_BACKEND_URL \o "/loans",
       json |-> [none |-> TRUE]]>>

\* EmployeeIdMissing without the check.
Mut_EmployeeIdMissing(emp) == FALSE

\* `not employee_id`
EmployeeIdMissing(emp) == emp = ""

NoReq == [made |-> FALSE, json |-> PyNone, error |-> NoneStr]
NoGate == [called |-> FALSE, raised |-> FALSE, ret |-> PyNone, out |-> <<>>]
NoPanel == [called |-> FALSE, details |-> NoDetails, out |-> <<>>]

Idle(items) ==
    [out |-> items, calls |-> <<>>, raised |-> FALSE,
     req |-> NoReq, gate |-> NoGate, panel |-> NoPanel]

(***************************************************************************)
(* Salary Advance section.                                                 *)
(***************************************************************************)
AdvanceFinalResult(o) ==
    IF o.advance_eligible = "true"
    THEN <<Item("success", "**Status:** " \o Str(o.advance_message)),
           Item("write", "**Approved Amount:** " \o
                FormatUGX(IF o.approved_advance_amount.some
                          THEN o.approved_advance_amount.v ELSE 0)),
           Item("info", "Your salary advance has been processed and recorded!"),
           Item("subheader", "Next Steps:"),
           Item("write", "1. Your advance will be disbursed within 24 hours"),
           Item("write", "2. The amount will be deducted from your next salary"),
           Item("write", "3. Check the 'All Recorded Loans' section below to view details")>>
    ELSE <<Item("warning", "**Status:** " \o Str(o.advance_message))>>

\* `if result:` and what is rendered under it.
AdvanceRender(result) ==
    IF TruthyJson(result)
    THEN display_eligibility_details(result.obj.eligibility_details)
         \o <<Item("markdown", "---"), Item("subheader", "Final Result:")>>
         \o AdvanceFinalResult(result.obj)
    ELSE <<>>

\* The call of display_eligibility_details made for the gated result, if any.
PanelCall(ret) ==
    IF TruthyJson(ret)
    THEN [called |-> TRUE, details |-> ret.obj.eligibility_details,
          out |-> display_eligibility_details(ret.obj.eligibility_details)]
    ELSE NoPanel

\* From the return of make_request (r) on: display_result (g), then the
\* rendering of the result unless display_result raised.
AdvanceHandle(emp, amount, r, g) ==
    [out |-> g.out \o (IF g.raised THEN <<>> ELSE AdvanceRender(g.ret)),
     calls |-> PostCalls("calculate_advance", AdvancePayload(emp, amount)),
     raised |-> g.raised,
     req |-> [made |-> TRUE, json |-> r.json, error |-> r.error],
     gate |-> [called |-> TRUE, raised |-> g.raised, ret |-> g.ret,
               out |-> g.out],
     panel |-> IF g.raised THEN NoPanel ELSE PanelCall(g.ret)]

AdvanceRequest(emp, amount, r) ==
    AdvanceHandle(emp, amount, r, display_result(r.json, r.error))

\* The button handler: what the press adds below the section's widgets.
AdvanceSubmit(emp, amount, outcome) ==
    IF EmployeeIdMissing(emp)
    THEN Idle(<<Item("error", "Please enter your Employee ID.")>>)
    ELSE AdvanceRequest(emp, amount, make_request(outcome))

AdvanceSection(emp, amount, pressed, outcome) ==
    IF pressed THEN AdvanceSubmit(emp, amount, outcome) ELSE Idle(<<>>)

(***************************************************************************)
(* Personal Loan section.                                                  *)
(***************************************************************************)
\* pd.to_datetime of an ISO date, as the table shows it.
ToDatetime(date) == date \o " 00:00:00"

\* One row of the table: indexed by Payment_Number, the date parsed, the five
\* monetary columns as currency strings.
FormatRow(row) ==
    <<ToString(row.Payment_Number), ToDatetime(row.Payment_Date),
      FormatUGX(row.Beginning_Balance), FormatUGX(row.Monthly_Payment),
      FormatUGX(row.Interest_Paid), FormatUGX(row.Principal_Paid),
      FormatUGX(row.Ending_Balance)>>

\* One line of pd.DataFrame(schedule).to_csv(index=False): the raw values.
CsvRow(row) ==
    <<ToString(row.Payment_Number), row.Payment_Date,
      ToString(row.Beginning_Balance), ToString(row.Monthly_Payment),
      ToString(row.Interest_Paid), ToString(row.Principal_Paid),
      ToString(row.Ending_Balance)>>

CsvHeader ==
    <<"Payment_Number", "Payment_Date", "Beginning_Balance", "Monthly_Payment",
      "Interest_Paid", "Principal_Paid", "Ending_Balance">>

ScheduleFileName(emp, term) ==
    "amortization_schedule_" \o emp \o "_" \o ToString(term) \o "months.csv"

\* ScheduleSection testing `schedule is not None`.
Mut_ScheduleSection(schedule, emp, term) ==
    IF schedule.some
    THEN <<Item("write", "### Amortization Schedule"),
           Table("dataframe", "Payment_Number",
                 [i \in 1..Len(schedule.v) |-> FormatRow(schedule.v[i])]),
           Table("download", ScheduleFileName(emp, term),
                 <<CsvHeader>> \o
                 [i \in 1..Len(schedule.v) |-> CsvRow(schedule.v[i])])>>
    ELSE <<Item("info", "No amortization schedule available.")>>

\* schedule = result.get("loan_amortization_schedule"); `if schedule:`
ScheduleSection(schedule, emp, term) ==
    IF schedule.some /\ schedule.v # <<>>
    THEN <<Item("write", "### Amortization Schedule"),
           Table("dataframe", "Payment_Number",
                 [i \in 1..Len(schedule.v) |-> FormatRow(schedule.v[i])]),
           Table("download", ScheduleFileName(emp, term),
                 <<CsvHeader>> \o
                 [i \in 1..Len(schedule.v) |-> CsvRow(schedule.v[i])])>>
    ELSE <<Item("info", "No amortization schedule available.")>>

LoanSummary(o, term) ==
    <<Item("subheader", "Personal Loan Result:"),
      Item("success", "Loan calculation successful!"),
      Item("metric", "Loan Amount: UGX " \o FloatStr(DefaultLoanAmount)),
      Item("metric", "Interest Rate: " \o PercentStr(DefaultInterestTenths)),
      Item("metric", "Loan Term: " \o ToString(term) \o " months"),
      Item("write", "**Total Repayable:** " \o
           FormatUGX(IF o.loan_total_repayable_amount.some
                     THEN o.loan_total_repayable_amount.v ELSE 0))>>

\* `if result and result.get("loan_requested"):` and what is rendered under it.
LoanRender(result, emp, term) ==
    IF TruthyJson(result) /\ result.obj.loan_requested = "true"
    THEN LoanSummary(result.obj, term)
         \o ScheduleSection(result.obj.loan_amortization_schedule, emp, term)
    ELSE <<>>

LoanHandle(emp, term, r, g) ==
    [out |-> g.out \o (IF g.raised THEN <<>> ELSE LoanRender(g.ret, emp, term)),
     calls |-> PostCalls("calculate_loan", LoanPayload(emp, term)),
     raised |-> g.raised,
     req |-> [made |-> TRUE, json |-> r.json, error |-> r.error],
     gate |-> [called |-> TRUE, raised |-> g.raised, ret |-> g.ret,
               out |-> g.out],
     panel |-> NoPanel]

LoanRequest(emp, term, r) ==
    LoanHandle(emp, term, r, display_result(r.json, r.error))

LoanSubmit(emp, term, outcome) ==
    IF EmployeeIdMissing(emp)
    THEN Idle(<<Item("error", "Please enter your Employee ID.")>>)
    ELSE LoanRequest(emp, term, make_request(outcome))

LoanSection(emp, term, pressed, outcome) ==
    IF pressed THEN LoanSubmit(emp, term, outcome) ELSE Idle(<<>>)

(***************************************************************************)
(* Display All Loans: the whole section runs inside try/except.            *)
(***************************************************************************)
\* The date columns as "%Y-%m-%d", the amount as a currency string.
FormatLoan(loan) ==
    <<loan.employee_id, FormatUGX(loan.amount), loan.disbursement_date.date,
      loan.expected_repayment_date.date, loan.created_at.date>>

LoansTable(loans) ==
    IF loans.some /\ loans.v # <<>>
    THEN <<Table("dataframe", "loans",
                 [i \in 1..Len(loans.v) |-> FormatLoan(loans.v[i])])>>
    ELSE <<Item("info", "No loans recorded yet.")>>

LedgerSection(show, outcome) ==
    IF ~show
    THEN [out |-> <<>>, calls |-> <<>>]
    ELSE [calls |-> GetCalls,
          out |-> CASE outcome.kind = "json" -> LoansTable(outcome.loans)
                    [] outcome.kind = "connection" ->
                         <<Item("error",
                                "Could not connect to backend to fetch loans.")>>
                    [] OTHER ->
                         <<Item("error",
                                "Error fetching loans: " \o outcome.detail)>>]

(***************************************************************************)
(* One run of the script.  An exception that no handler catches ends the   *)
(* run where it is raised: nothing below it is executed.                   *)
(***************************************************************************)
Top(opt) ==
    <<Item("title", "Salary Advance & Loan Calculator"),
      Item("markdown", "---"),
      Item("header", "Your Employee Information"),
      Item("header", IF opt = "Get Salary Advance"
                     THEN "Salary Advance Request"
                     ELSE "Personal Loan Request")>>

\* The section (sec), then the ledger (led) unless the section raised.
Sequence(top, sec, led) ==
    IF sec.raised
    THEN [out |-> top \o sec.out, calls |-> sec.calls, crashed |-> TRUE,
          req |-> sec.req, gate |-> sec.gate, panel |-> sec.panel]
    ELSE [out |-> top \o sec.out \o <<Item("markdown", "---")>> \o led.out,
          calls |-> sec.calls \o led.calls, crashed |-> FALSE,
          req |-> sec.req, gate |-> sec.gate, panel |-> sec.panel]

RunScript(opt, emp, show, amount, term, pressed, post, get) ==
    Sequence(Top(opt),
             IF opt = "Get Salary Advance"
             THEN AdvanceSection(emp, amount, pressed, post)
             ELSE LoanSection(emp, term, pressed, post),
             LedgerSection(show, get))

(***************************************************************************)
(* What the backend may answer.                                            *)
(***************************************************************************)
\* Outcomes of requests.post / raise_for_status / response.json.
Failure(kind, detail) == [kind |-> kind, detail |-> detail, body |-> PyNone]
Json(body) == [kind |-> "json", detail |-> "", body |-> body]

\* "request": an HTTP error status, a timeout, any other RequestException.
\* "unexpected": any other exception (a body that does not parse as JSON is
\* one or the other, depending on the version of requests).
PostFailures ==
    {Failure("connection", ""), Failure("request", "500 Server Error"),
     Failure("request", "Read timed out"),
     Failure("unexpected", "Expecting value")}

\* Well-formed JSON bodies that are not objects.
NonObjects == {Json(PyNone), Json(JList(0)), Json(JList(1)), Json(JInt(7))}

Criteria == {"Exceeds maximum advance limit", "Salary below minimum"}

FailedCriteriaValues ==
    {NoneSeq} \cup
    {SomeSeq(f) : f \in UNION {[1..k -> Criteria] : k \in 0..MaxFailed}}

AllDetails ==
    {Details(s, p, a, l, m, f) :
        s \in BOOLEAN, p \in BOOLEAN, a \in BOOLEAN, l \in BOOLEAN,
        m \in {NoneNum, SomeNum(0), SomeNum(300000)},
        f \in FailedCriteriaValues}

\* The two responses of the specification's scenarios, and no details at all.
SampleDetails ==
    {NoDetails,
     Details(TRUE, TRUE, TRUE, TRUE, SomeNum(750000), SomeSeq(<<>>)),
     Details(TRUE, TRUE, TRUE, FALSE, SomeNum(300000),
             SomeSeq(<<"Exceeds maximum advance limit">>))}

AdvanceObjects(details) ==
    {[EmptyObj EXCEPT !.error = e, !.error_message = em,
                      !.eligibility_details = d, !.advance_eligible = ae,
                      !.advance_message = am, !.approved_advance_amount = aa] :
        e \in Tri, em \in {NoneStr, SomeStr("Employee not found")},
        d \in details, ae \in Tri,
        am \in {NoneStr, SomeStr("Approved")},
        aa \in {NoneNum, SomeNum(0), SomeNum(500000)}}

AmortizationRow(i) ==
    [Payment_Number |-> i, Payment_Date |-> "2025-0" \o ToString(i) \o "-28",
     Beginning_Balance |-> 1200000 - (i - 1) * 100000,
     Monthly_Payment |-> 107000, Interest_Paid |-> 7000,
     Principal_Paid |-> 100000, Ending_Balance |-> 1200000 - i * 100000]

Schedules ==
    {NoneSeq} \cup
    {SomeSeq([i \in 1..k |-> AmortizationRow(i)]) : k \in 0..MaxRows}

LoanObjects ==
    {[EmptyObj EXCEPT !.error = e, !.error_message = em,
                      !.loan_requested = lr,
                      !.loan_total_repayable_amount = lt,
                      !.loan_amortization_schedule = ls] :
        e \in Tri, em \in {NoneStr, SomeStr("Employee not found")},
        lr \in Tri, lt \in {NoneNum, SomeNum(0), SomeNum(1284000)},
        ls \in Schedules}

PostOutcomes ==
    PostFailures \cup NonObjects
    \cup {Json(JObj(o)) : o \in AdvanceObjects(SampleDetails) \cup LoanObjects}

\* Responses that carry every shape of eligibility details.
PanelOutcomes ==
    {Json(JObj([EmptyObj EXCEPT !.eligibility_details = d,
                                !.advance_eligible = ae])) :
        d \in AllDetails, ae \in {"true", "false"}}

\* Outcomes of requests.get / raise_for_status / response.json for /loans.
LoanRecord(i) ==
    [employee_id |-> "EMP00" \o ToString(i), amount |-> 500000 * i,
     disbursement_date |-> [date |-> "2025-01-15", time |-> "09:30:00"],
     expected_repayment_date |-> [date |-> "2025-02-15", time |-> "00:00:00"],
     created_at |-> [date |-> "2025-01-14", time |-> "17:05:12"]]

\* Every exception but ConnectionError ends in the same handler.
GetOutcomes ==
    {[kind |-> "connection", detail |-> "", loans |-> NoneSeq],
     [kind |-> "request", detail |-> "500 Server Error", loans |-> NoneSeq],
     [kind |-> "unexpected", detail |-> "Expecting value", loans |-> NoneSeq],
     [kind |-> "json", detail |-> "", loans |-> NoneSeq]}
    \cup {[kind |-> "json", detail |-> "",
           loans |-> SomeSeq([i \in 1..k |-> LoanRecord(i)])] : k \in 0..MaxLoans}

(***************************************************************************)
(* The interactions.  Every one re-runs the script with the new widget     *)
(* values; the button reads True only in the run its press triggers.       *)
(***************************************************************************)
Options == {"Get Salary Advance", "Get Personal Loan"}
EmployeeIds == {"", "EMP001"}
RequestedAmounts == {0, DefaultRequestedAdvance}
LoanTerms == {DefaultLoanTerm, MaxLoanTerm}

\* What a run (r) leaves on the page and on the wire.
Rendered(r) ==
    /\ out' = r.out
    /\ calls' = r.calls
    /\ crashed' = r.crashed
    /\ req' = r.req
    /\ gate' = r.gate
    /\ panel' = r.panel

Rerun(opt, emp, show, amount, term, pressed) ==
    /\ option' = opt
    /\ employee_id' = emp
    /\ show_loans' = show
    /\ requested_advance_amount' = amount
    /\ loan_term_months' = term
    /\ button' = pressed
    /\ Rendered(RunScript(opt, emp, show, amount, term, pressed,
                          backend_post, backend_get))
    /\ UNCHANGED <<backend_post, backend_get>>

FirstRun(r) ==
    /\ out = r.out
    /\ calls = r.calls
    /\ crashed = r.crashed
    /\ req = r.req
    /\ gate = r.gate
    /\ panel = r.panel

\* The first run, when the page is opened: every widget at its default.
InitWith(posts, gets) ==
    /\ backend_post \in posts
    /\ backend_get \in gets
    /\ option = "Get Salary Advance"
    /\ employee_id = "EMP001"
    /\ show_loans = FALSE
    /\ requested_advance_amount = DefaultRequestedAdvance
    /\ loan_term_months = DefaultLoanTerm
    /\ button = FALSE
    /\ FirstRun(RunScript("Get Salary Advance", "EMP001", FALSE,
                          DefaultRequestedAdvance, DefaultLoanTerm, FALSE,
                          backend_post, backend_get))

Init == InitWith(PostOutcomes, GetOutcomes)

InitPanel ==
    InitWith(PanelOutcomes, {[kind |-> "connection", detail |-> "", loans |-> NoneSeq]})

\* The radio: the section that is no longer rendered loses its widget state.
SelectOption ==
    \E o \in Options \ {option} :
        Rerun(o, employee_id, show_loans, DefaultRequestedAdvance,
              DefaultLoanTerm, FALSE)

EditEmployeeId ==
    \E e \in EmployeeIds \ {employee_id} :
        Rerun(option, e, show_loans, requested_advance_amount,
              loan_term_months, FALSE)

EditRequestedAdvance ==
    /\ option = "Get Salary Advance"
    /\ \E a \in RequestedAmounts \ {requested_advance_amount} :
           Rerun(option, employee_id, show_loans, a, loan_term_months, FALSE)

MoveLoanTermSlider ==
    /\ option = "Get Personal Loan"
    /\ \E t \in LoanTerms \ {loan_term_months} :
           Rerun(option, employee_id, show_loans, requested_advance_amount,
                 t, FALSE)

ToggleShowLoans ==
    /\ show_loans' = ~show_loans
    /\ Rerun(option, employee_id, ~show_loans, requested_advance_amount,
             loan_term_months, FALSE)

\* "Check Eligibility & Request" or "Calculate Loan & View Schedule".
PressSubmit ==
    /\ button' = TRUE
    /\ Rerun(option, employee_id, show_loans, requested_advance_amount,
             loan_term_months, TRUE)

Next ==
    \/ SelectOption
    \/ EditEmployeeId
    \/ EditRequestedAdvance
    \/ MoveLoanTermSlider
    \/ ToggleShowLoans
    \/ PressSubmit

Spec == Init /\ [][Next]_vars

SpecPanel == InitPanel /\ [][Next]_vars

(***************************************************************************)
(* Properties.                                                             *)
(***************************************************************************)
Has(items, kind, text) ==
    \E i \in 1..Len(items) : items[i].kind = kind /\ items[i].text = text

HasKind(items, kind) == \E i \in 1..Len(items) : items[i].kind = kind

HasText(items, text) == \E i \in 1..Len(items) : items[i].text = text

Count(items, kind, text) ==
    Cardinality({i \in 1..Len(items) :
                    items[i].kind = kind /\ items[i].text = text})

Posts == {i \in 1..Len(calls) : calls[i].method = "POST"}
Gets == {i \in 1..Len(calls) : calls[i].method = "GET"}

ValidationError == "Please enter your Employee ID."

\* C1: whenever make_request has returned, exactly one component of the pair
\* is populated: (json, None) with json not None, or (None, non-empty string).
C1_ExactlyOnePopulated ==
    req.made =>
        \/ req.json.t # "none" /\ ~req.error.some
        \/ req.json.t = "none" /\ req.error.some /\ req.error.v # ""

\* C2 as written: a submit with an empty employee ID makes no network call at
\* all in that interaction and shows the validation error.
C2_NoCallOnEmptyId ==
    (button /\ employee_id = "") =>
        calls = <<>> /\ Has(out, "error", ValidationError)

\* C2 amended: a submit with an empty employee ID never posts to the flow's
\* endpoint and shows the validation error; the only request of the
\* interaction is the ledger's GET /loans, made iff the checkbox is checked.
C2_NoPostOnEmptyId ==
    (button /\ employee_id = "") =>
        /\ Posts = {}
        /\ Has(out, "error", ValidationError)
        /\ Len(calls) = (IF show_loans THEN 1 ELSE 0)
        /\ ~req.made

C2_Witness ==
    /\ button /\ employee_id = "" /\ show_loans
    /\ option = "Get Personal Loan"
    /\ Gets = {1}
    /\ Has(out, "error", ValidationError)

\* C5 as written: no interaction makes more than one network call.
C5_AtMostOneCall == Len(calls) <= 1

\* C5 amended: an interaction makes at most one POST and at most one GET
\* /loans, the POST first; two calls are made only by a submit with a
\* non-empty employee ID while the ledger checkbox is checked, and every
\* other interaction makes at most one.
C5_AtMostOnePostOneGet ==
    /\ Cardinality(Posts) <= 1
    /\ Cardinality(Gets) <= 1
    /\ Len(calls) = Cardinality(Posts) + Cardinality(Gets)
    /\ (Posts # {} => Posts = {1})
    /\ (Len(calls) = 2 => button /\ show_loans /\ employee_id # "" /\ ~crashed)
    /\ (~button => Posts = {})
    /\ (~show_loans => Gets = {})

C5_Witness ==
    /\ button /\ show_loans /\ employee_id # ""
    /\ Len(calls) = 2
    /\ calls[1].method = "POST" /\ calls[2].method = "GET"

\* A failure outcome of the POST: a transport failure, a body that is not an
\* object, or an object flagging error: true.
PostFailed ==
    \/ backend_post.kind # "json"
    \/ backend_post.body.t # "dict"
    \/ backend_post.body.obj.error = "true"

\* C4: a submit with a non-empty employee ID ends without an unhandled
\* exception whatever the backend answers, and every failure outcome leaves an
\* error message of the flow on the page.
C4_NoCrashVisibleError ==
    (button /\ employee_id # "") =>
        /\ ~crashed
        /\ (PostFailed => HasKind(gate.out, "error"))

\* C6: display_result has three exclusive outcomes over every pair
\* make_request returns: the error shown and nothing returned; the response's
\* error_message (or "Unknown error") shown and nothing returned; nothing
\* shown and the same result returned.
C6_ThreeOutcomes ==
    gate.called =>
        /\ ~gate.raised
        /\ IF req.error.some
           THEN gate.out = <<Item("error", req.error.v)>> /\ gate.ret = PyNone
           ELSE IF req.json.obj.error = "true"
           THEN /\ gate.out = <<Item("error", "Error: " \o
                                   (IF req.json.obj.error_message.some
                                    THEN req.json.obj.error_message.v
                                    ELSE "Unknown error"))>>
                /\ gate.ret = PyNone
           ELSE gate.out = <<>> /\ gate.ret = req.json

NextSteps ==
    {"1. Your advance will be disbursed within 24 hours",
     "2. The amount will be deducted from your next salary",
     "3. Check the 'All Recorded Loans' section below to view details"}

\* C7: in the Advance Flow, every response object that is not flagged as an
\* error (one with no fields included) gets the panel rendered from its
\* eligibility_details and exactly one final-result branch: the success with
\* the approved amount (0 if absent) and the three next steps when
\* advance_eligible is true, otherwise the warning.
C7_AdvanceResultRendered ==
    (/\ button /\ option = "Get Salary Advance" /\ employee_id # ""
     /\ backend_post.kind = "json" /\ backend_post.body.t = "dict"
     /\ backend_post.body.obj.error # "true") =>
        LET o == backend_post.body.obj
            status == "**Status:** " \o Str(o.advance_message)
            amount == "**Approved Amount:** " \o
                      FormatUGX(IF o.approved_advance_amount.some
                                THEN o.approved_advance_amount.v ELSE 0)
        IN  /\ Has(out, "subheader", "Final Result:")
            /\ o.eligibility_details.present =>
                   panel.called /\ panel.details = o.eligibility_details
            /\ IF o.advance_eligible = "true"
               THEN /\ Count(out, "success", status) = 1
                    /\ Count(out, "write", amount) = 1
                    /\ \A t \in NextSteps : Count(out, "write", t) = 1
                    /\ ~HasKind(out, "warning")
               ELSE /\ Count(out, "warning", status) = 1
                    /\ ~Has(out, "success", status)
                    /\ ~HasKind(gate.out, "error")
                    /\ \A t \in NextSteps : ~HasText(out, t)

SalaryHintText == "* Increase your gross salary to at least UGX 200,000"
FrequencyHintText ==
    "* Ensure your pay frequency is one of: Weekly, Bi-weekly, Semi-monthly, or Monthly"

SalaryHintShown == Has(panel.out, "info", SalaryHintText)
FrequencyHintShown == Has(panel.out, "info", FrequencyHintText)
AmountHintShown ==
    \E n \in {0, 300000, 750000} : Has(panel.out, "info", AmountHintText(n))

\* C3 as written: the salary hint is shown iff salary_check is false, the
\* frequency hint iff pay_frequency_check is false, the amount hint iff
\* advance_limit_check is false and max_eligible_advance is not null.
C3_HintsIffCheckFalse ==
    (panel.called /\ panel.details.present) =>
        /\ SalaryHintShown <=> ~panel.details.salary_check
        /\ FrequencyHintShown <=> ~panel.details.pay_frequency_check
        /\ AmountHintShown <=>
               (~panel.details.advance_limit_check
                /\ panel.details.max_eligible_advance.some)

\* C3 amended: with failed_criteria non-empty, the salary hint is shown iff
\* salary_check is false, the frequency hint iff pay_frequency_check is
\* false, and the amount hint (quoting max_eligible_advance) iff
\* advance_limit_check is false and max_eligible_advance is neither null nor
\* 0; with failed_criteria empty or absent no hint is shown.
C3_HintsUnderFailedCriteria ==
    (panel.called /\ panel.details.present) =>
        LET d == panel.details
            failed == d.failed_criteria.some /\ d.failed_criteria.v # <<>>
        IN  /\ SalaryHintShown <=> (failed /\ ~d.salary_check)
            /\ FrequencyHintShown <=> (failed /\ ~d.pay_frequency_check)
            /\ AmountHintShown <=>
                   (/\ failed /\ ~d.advance_limit_check
                    /\ d.max_eligible_advance.some
                    /\ d.max_eligible_advance.v # 0)
            /\ AmountHintShown =>
                   Has(panel.out, "info",
                       AmountHintText(d.max_eligible_advance.v))

C3_Witness ==
    /\ panel.called
    /\ ~panel.details.advance_limit_check
    /\ panel.details.salary_check
    /\ panel.details.max_eligible_advance = SomeNum(300000)
    /\ panel.details.failed_criteria.v # <<>>
    /\ AmountHintShown /\ ~SalaryHintShown

IndicatorTexts ==
    {"Minimum salary requirement met", "Minimum salary requirement not met",
     "Valid pay frequency", "Invalid pay frequency",
     "Valid advance amount", "Invalid advance amount",
     "Within advance limit", "Exceeds maximum advance limit"}

IsIndicator(item) == item.text \in IndicatorTexts

Indicator(check, met, unmet) ==
    IF check THEN Item("success", met) ELSE Item("error", unmet)

\* C8: whenever the details exist the panel shows exactly four indicators, in
\* the order salary, pay frequency, amount, advance limit, each one the
\* positive indicator iff its own check is true and the negative one with its
\* fixed label otherwise.
C8_FourIndicators ==
    (panel.called /\ panel.details.present) =>
        LET d == panel.details
            ind == SelectSeq(panel.out, IsIndicator)
        IN  /\ Len(ind) = 4
            /\ ind[1] = Indicator(d.salary_check,
                                  "Minimum salary requirement met",
                                  "Minimum salary requirement not met")
            /\ ind[2] = Indicator(d.pay_frequency_check,
                                  "Valid pay frequency", "Invalid pay frequency")
            /\ ind[3] = Indicator(d.amount_check,
                                  "Valid advance amount", "Invalid advance amount")
            /\ ind[4] = Indicator(d.advance_limit_check,
                                  "Within advance limit",
                                  "Exceeds maximum advance limit")

C8_Witness ==
    /\ panel.called
    /\ panel.details.salary_check /\ ~panel.details.pay_frequency_check
    /\ ~panel.details.amount_check /\ panel.details.advance_limit_check
    /\ Has(panel.out, "error", "Invalid advance amount")
    /\ Has(panel.out, "success", "Within advance limit")

\* C10: with failed_criteria empty or absent the panel shows no "Issues to
\* Address" heading, no criterion line and no hint; with failed_criteria
\* non-empty its entries are the lines under that heading, one each, in the
\* order the backend gave them.
C10_FailedCriteriaGateAndOrder ==
    (panel.called /\ panel.details.present) =>
        LET fc == IF panel.details.failed_criteria.some
                  THEN panel.details.failed_criteria.v ELSE <<>>
            po == panel.out
        IN  IF fc = <<>>
            THEN /\ ~Has(po, "subheader", "Issues to Address:")
                 /\ ~Has(po, "subheader", "How to Become Eligible:")
                 /\ ~HasKind(po, "info")
                 /\ \A i \in 1..Len(po) : po[i].kind = "error" => IsIndicator(po[i])
            ELSE \E k \in 1..Len(po) :
                    /\ po[k] = Item("subheader", "Issues to Address:")
                    /\ k + Len(fc) + 1 <= Len(po)
                    /\ \A i \in 1..Len(fc) :
                           po[k + i] = Item("error", "* " \o fc[i])
                    /\ po[k + Len(fc) + 1] =
                           Item("subheader", "How to Become Eligible:")
                    /\ Cardinality({i \in 1..Len(po) :
                                       po[i].kind = "error" /\ ~IsIndicator(po[i])})
                       = Len(fc)

C10_Witness ==
    /\ panel.called
    /\ panel.details.failed_criteria =
           SomeSeq(<<"Salary below minimum", "Exceeds maximum advance limit">>)
    /\ Has(panel.out, "error", "* Salary below minimum")
    /\ Has(panel.out, "subheader", "Issues to Address:")

LoanGranted ==
    /\ req.made /\ ~req.error.some
    /\ req.json.t = "dict"
    /\ req.json.obj.error # "true"
    /\ req.json.obj.loan_requested = "true"

SummaryTexts ==
    {"Loan Amount: UGX 1000000.0", "Interest Rate: 7.0%",
     "Loan Term: " \o ToString(loan_term_months) \o " months"}

NoScheduleText == "No amortization schedule available."

\* C9: in the Loan Flow the summary (three metrics and the total repayable,
\* 0 if absent) is shown iff the call succeeded, the response is not flagged
\* as an error and loan_requested is true; then exactly one of the two is
\* shown: the formatted table with the CSV download when the schedule is
\* present and non-empty, or the informational message when it is absent or
\* empty.
C9_LoanSummaryAndSchedule ==
    option = "Get Personal Loan" =>
        IF LoanGranted
        THEN LET o == req.json.obj
                 sch == o.loan_amortization_schedule
                 total == "**Total Repayable:** " \o
                          FormatUGX(IF o.loan_total_repayable_amount.some
                                    THEN o.loan_total_repayable_amount.v ELSE 0)
             IN  /\ \A t \in SummaryTexts : Count(out, "metric", t) = 1
                 /\ Count(out, "write", total) = 1
                 /\ IF sch.some /\ sch.v # <<>>
                    THEN /\ \E i \in 1..Len(out) :
                               /\ out[i].kind = "dataframe"
                               /\ out[i].text = "Payment_Number"
                               /\ Len(out[i].rows) = Len(sch.v)
                               /\ i < Len(out)
                               /\ out[i + 1].kind = "download"
                               /\ out[i + 1].text =
                                      ScheduleFileName(employee_id,
                                                       loan_term_months)
                               /\ Len(out[i + 1].rows) = Len(sch.v) + 1
                         /\ ~Has(out, "info", NoScheduleText)
                    ELSE /\ Count(out, "info", NoScheduleText) = 1
                         /\ ~HasKind(out, "download")
                         /\ ~Has(out, "dataframe", "Payment_Number")
                         /\ ~HasKind(gate.out, "error")
        ELSE /\ ~HasKind(out, "metric")
             /\ ~Has(out, "subheader", "Personal Loan Result:")
             /\ ~HasKind(out, "download")
             /\ ~Has(out, "dataframe", "Payment_Number")
             /\ ~Has(out, "info", NoScheduleText)

C9_Witness ==
    /\ option = "Get Personal Loan" /\ LoanGranted
    /\ Len(req.json.obj.loan_amortization_schedule.v) = 2
    /\ Has(out, "dataframe", "Payment_Number")
    /\ Has(out, "download", "amortization_schedule_EMP001_60months.csv")

====
